---- MODULE Spec2Model ----
(***************************************************************************)
(* The asynchronous video transcoding pipeline of backend-api_eco:         *)
(*   - VideoProcessingQueue (src/src/utils/videoQueue.ts), together with   *)
(*     the upload and admin-retry route handlers that feed it;             *)
(*   - the rendition planner of processVideoFormats;                       *)
(*   - processVideo's scratch directory and batchProcessVideos             *)
(*     (src/src/utils/videoProcessor.ts).                                  *)
(* One step of the queue model is one event-loop task together with the    *)
(* promise continuations (microtasks) it triggers.                         *)
(***************************************************************************)
EXTENDS Integers, Sequences, FiniteSets, TLC

\* ------------------------------------------------------------------ bounds
MaxJobs == 3
MaxVideos == 3
MaxAdmin == 2

\* ------------------------------------------------------- program constants
concurrency == 2
maxRetries == 3

VARIABLES
  \* VideoProcessingQueue
  queue,        \* this.queue: sequence of job ids, head first
  processing,   \* this.processing
  jobs,         \* every VideoJob object ever created, indexed by job id
  pc,           \* per job: where the job is (queued / inside processJob / settled)
  attempts,     \* per job: number of processJob invocations so far
  passes,       \* one set per processQueue pass awaiting Promise.allSettled:
                \* the jobs of its activeJobs whose promise has not settled
  immediates,   \* number of pending setImmediate(() => this.processQueue())
  calls,        \* per job: the promise of the queueVideoProcessing call that admitted it
  timerDelay,   \* per job: the delay given to setTimeout for its latest retry, in ms (0: none yet)
  \* relational store, short_videos rows
  status,       \* per video id: processing_status
  videoUrl,     \* per video id: video_url
  \* POST /admin/:id/retry-processing
  adminPending, \* per video id: requests that passed the status check and await their UPDATE
  \* processVideoFormats
  metadata,         \* the probe result: width, height, bitrate
  optFormats,       \* options.formats: Undefined or a list of quality labels
  availableFormats, \* the renditions selected for transcoding
  fpc,              \* "start", then "planned"
  \* processVideo runs started by batchProcessVideos
  now,          \* Date.now(), in ms
  dirs,         \* the scratch directories that exist, named by their timestamp
  videoUrls,    \* the list given to batchProcessVideos
  options,      \* the ProcessingOptions given to it: maxDuration, generateThumbnails
  runs,         \* per URL: the processVideo call made for it
  bi,           \* the loop index i of batchProcessVideos
  results,      \* its results array (the URL indexes whose manifest it holds)
  bpc,          \* "start", "running", "done"
  \* one job followed through processJob and processVideo in detail
  jobOpts,      \* job.options, the ProcessingOptions given to queueVideoProcessing
  pv,           \* the locals of the processVideo call and of the two loops it runs
  row,          \* processed_formats, thumbnails, metadata and duration columns of the job's row
  \* GET /admin/processing-status
  queueStatus   \* the snapshot getQueueStatus returned to the handler, once it was called

qvars == <<queue, processing, jobs, pc, attempts, passes, immediates, calls, timerDelay,
           status, videoUrl, adminPending>>

pvars == <<metadata, optFormats, availableFormats, fpc>>

bvars == <<now, dirs, videoUrls, options, runs, bi, results, bpc>>

xvars == <<jobOpts, pv, row>>

svars == <<queueStatus>>

vars == <<qvars, pvars, bvars, xvars, svars>>

JobIds == 1..Len(jobs)
VideoIds == 1..Len(status)
Range(s) == {s[i] : i \in 1..Len(s)}
Min(a, b) == IF a < b THEN a ELSE b

\* Job positions.  "q1": awaiting the `processing` write; "pv": awaiting
\* processVideo; "q2": awaiting the `completed` write; "q3": awaiting the
\* `failed` write; "timer": processJob has returned and the retry timer is
\* pending; "completed", "failed", "rejected": processJob has settled for good
\* ("rejected": the `failed` write threw, so processJob rejected).
InFlightPcs == {"q1", "pv", "q2", "q3"}
InFlight == {j \in JobIds : pc[j] \in InFlightPcs}

\* new VideoJob of addJob
NewJob(videoId, url) ==
  [videoId |-> videoId, videoUrl |-> url, retryCount |-> 0, maxRetries |-> maxRetries]

\* processQueue without `this.processing = true`
processQueue_flagNotSet(q, proc) ==
  IF proc \/ Len(q) = 0
    THEN [queue |-> q, processing |-> proc, started |-> <<>>]
    ELSE LET n == Min(Len(q), concurrency)
         IN [queue |-> SubSeq(q, n + 1, Len(q)),
             processing |-> proc,
             started |-> SubSeq(q, 1, n)]

\* processQueue reading the head jobs without taking them off the queue
processQueue_noShift(q, proc) ==
  IF proc \/ Len(q) = 0
    THEN [queue |-> q, processing |-> proc, started |-> <<>>]
    ELSE LET n == Min(Len(q), concurrency)
         IN [queue |-> q,
             processing |-> TRUE,
             started |-> SubSeq(q, 1, n)]

\* processQueue going on without the await: with nothing left in the queue the
\* flag is cleared while the started jobs are still running
processQueue_noAwait(q, proc) ==
  IF proc \/ Len(q) = 0
    THEN [queue |-> q, processing |-> proc, started |-> <<>>]
    ELSE LET n == Min(Len(q), concurrency)
         IN [queue |-> SubSeq(q, n + 1, Len(q)),
             processing |-> Len(q) > n,
             started |-> SubSeq(q, 1, n)]

\* processQueue up to its await: the guard, the flag and the while loop that
\* shifts jobs off the head and starts them.
processQueue(q, proc) ==
  IF proc \/ Len(q) = 0
    THEN [queue |-> q, processing |-> proc, started |-> <<>>]
    ELSE LET n == Min(Len(q), concurrency)
         IN [queue |-> SubSeq(q, n + 1, Len(q)),
             processing |-> TRUE,
             started |-> SubSeq(q, 1, n)]

\* starting the job just pushed when other jobs are waiting, instead of
\* leaving it at the tail
triggerQueue_newestFirst(q, proc) ==
  IF Len(q) >= 2
    THEN [queue |-> SubSeq(q, 1, Len(q) - 1), processing |-> TRUE,
          started |-> <<q[Len(q)]>>]
    ELSE IF ~proc THEN processQueue(q, proc)
                  ELSE [queue |-> q, processing |-> proc, started |-> <<>>]

\* `if (!this.processing) this.processQueue()` of addJob and of the retry timer
triggerQueue(q, proc) ==
  IF ~proc THEN processQueue(q, proc)
           ELSE [queue |-> q, processing |-> proc, started |-> <<>>]

\* The state after a call of processQueue returned r: the started jobs are
\* inside processJob, awaiting the `processing` write.
ApplyStart(r, pcNow, attNow) ==
  /\ queue' = r.queue
  /\ processing' = r.processing
  /\ passes' = IF r.started = <<>> THEN passes ELSE passes \cup {Range(r.started)}
  /\ pc' = [j \in DOMAIN pcNow |-> IF j \in Range(r.started) THEN "q1" ELSE pcNow[j]]
  /\ attempts' = [j \in DOMAIN attNow |->
                    IF j \in Range(r.started) THEN attNow[j] + 1 ELSE attNow[j]]

\* addJob awaiting the pass it starts: `await this.processQueue()`
addJobPromise_awaitsPass(r) ==
  IF r.started = <<>> THEN "fulfilled" ELSE "pending"

\* The promise of addJob, and so of queueVideoProcessing, once the task that
\* made the call is over: r is what the call of processQueue did.  processQueue
\* is not awaited and addJob has no other await and no throw, so the promise
\* is fulfilled whether or not a pass was started.
addJobPromise(r) == "fulfilled"

\* addJob: push, then start the queue when it is idle
addJob(videoId, url) ==
  LET id == Len(jobs) + 1
      r == triggerQueue(Append(queue, id), processing)
  IN /\ jobs' = Append(jobs, NewJob(videoId, url))
     /\ ApplyStart(r, Append(pc, "queued"), Append(attempts, 0))
     /\ calls' = Append(calls, addJobPromise(r))
     /\ timerDelay' = Append(timerDelay, 0)
     /\ UNCHANGED immediates

\* the pass clearing the flag also when it schedules its re-entry
SettleJob_flagCleared(j) ==
  LET p == CHOOSE s \in passes : j \in s
      rest == p \ {j}
  IN IF rest # {}
       THEN /\ passes' = (passes \ {p}) \cup {rest}
            /\ UNCHANGED <<processing, immediates>>
       ELSE /\ passes' = passes \ {p}
            /\ processing' = FALSE
            /\ immediates' = IF Len(queue) > 0 THEN immediates + 1 ELSE immediates

\* The promise of processJob(j) settles: the pass that holds j loses it, and
\* when it was the last one Promise.allSettled resolves and processQueue
\* continues after its await.
SettleJob(j) ==
  LET p == CHOOSE s \in passes : j \in s
      rest == p \ {j}
  IN IF rest # {}
       THEN /\ passes' = (passes \ {p}) \cup {rest}
            /\ UNCHANGED <<processing, immediates>>
       ELSE /\ passes' = passes \ {p}
            /\ IF Len(queue) > 0
                 THEN /\ immediates' = immediates + 1
                      /\ UNCHANGED processing
                 ELSE /\ processing' = FALSE
                      /\ UNCHANGED immediates

\* the catch block without the increment
IncRetry_forgotten(rc) == rc

\* job.retryCount++
IncRetry(rc) == rc + 1

\* the retry test with <= for <
ShouldRetry_offByOne(rc, max) == rc <= max

\* if (job.retryCount < job.maxRetries)
ShouldRetry(rc, max) == rc < max

\* the same delay for every retry
RetryDelay_constant(rc) == 5000

\* 5000 * job.retryCount, the delay of the retry timer in ms
RetryDelay(rc) == 5000 * rc

\* the catch block storing `failed` at every failure, retried or not
CatchFailure_marksFailed(j) ==
  LET rc == IncRetry(jobs[j].retryCount)
  IN /\ jobs' = [jobs EXCEPT ![j].retryCount = rc]
     /\ status' = [status EXCEPT ![jobs[j].videoId] = "failed"]
     /\ IF ShouldRetry(rc, jobs[j].maxRetries)
          THEN /\ pc' = [pc EXCEPT ![j] = "timer"]
               /\ timerDelay' = [timerDelay EXCEPT ![j] = RetryDelay(rc)]
               /\ SettleJob(j)
          ELSE /\ pc' = [pc EXCEPT ![j] = "q3"]
               /\ UNCHANGED <<passes, processing, immediates, timerDelay>>
     /\ UNCHANGED <<queue, attempts, calls, videoUrl, adminPending>>
     /\ UNCHANGED <<pvars, bvars, xvars, svars>>

\* the catch block of processJob
CatchFailure(j) ==
  LET rc == IncRetry(jobs[j].retryCount)
  IN /\ jobs' = [jobs EXCEPT ![j].retryCount = rc]
     /\ IF ShouldRetry(rc, jobs[j].maxRetries)
          THEN /\ pc' = [pc EXCEPT ![j] = "timer"]
               /\ timerDelay' = [timerDelay EXCEPT ![j] = RetryDelay(rc)]
               /\ SettleJob(j)
          ELSE /\ pc' = [pc EXCEPT ![j] = "q3"]
               /\ UNCHANGED <<passes, processing, immediates, timerDelay>>
     /\ UNCHANGED <<queue, attempts, calls, status, videoUrl, adminPending>>
     /\ UNCHANGED <<pvars, bvars, xvars, svars>>

\* ------------------------------------------------------ rendition planner
MaxReq == 2

\* an optional value: absent, or present with value x
Undefined == <<>>
Defined(x) == <<x>>

\* `${width}x${height}` and its inverse, split("x").map(Number)
Resolution(w, h) == <<w, "x", h>>
SplitResolution(res) == <<res[1], res[3]>>

DEFAULT_FORMATS ==
  << [quality |-> "240p", resolution |-> Resolution(426, 240), bitrate |-> "400k", codec |-> "libx264"],
     [quality |-> "360p", resolution |-> Resolution(640, 360), bitrate |-> "800k", codec |-> "libx264"],
     [quality |-> "480p", resolution |-> Resolution(854, 480), bitrate |-> "1200k", codec |-> "libx264"],
     [quality |-> "720p", resolution |-> Resolution(1280, 720), bitrate |-> "2500k", codec |-> "libx264"],
     [quality |-> "1080p", resolution |-> Resolution(1920, 1080), bitrate |-> "5000k", codec |-> "libx264"] >>

\* the source heights, widths and bitrates, and the quality labels a caller may
\* request ("4k" is no label of the ladder)
Heights == {0, 144, 240, 300, 360, 480, 600, 720, 1080, 2160}
Widths == {426, 1920}
Bitrates == {"0", "3000000"}
Labels == {"240p", "360p", "480p", "720p", "1080p", "4k"}

RequestLists == UNION {[1..n -> Labels] : n \in 0..MaxReq}

\* getQualityFromResolution with > for >=
getQualityFromResolution_strict(width, height) ==
  IF height > 1080 THEN "1080p"
  ELSE IF height > 720 THEN "720p"
  ELSE IF height > 480 THEN "480p"
  ELSE IF height > 360 THEN "360p"
  ELSE "240p"

getQualityFromResolution(width, height) ==
  IF height >= 1080 THEN "1080p"
  ELSE IF height >= 720 THEN "720p"
  ELSE IF height >= 480 THEN "480p"
  ELSE IF height >= 360 THEN "360p"
  ELSE "240p"

\* Array.prototype.includes
Includes(list, x) == \E i \in 1..Len(list) : list[i] = x

\* options.formats || ["360p", "720p"]: only undefined is replaced, an empty
\* list is truthy
requestedFormats(formats) ==
  IF formats = Undefined THEN <<"360p", "720p">> ELSE formats[1]

\* the filter without the height test
FormatAvailable_noHeight(format, meta, requested) ==
  Includes(requested, format.quality)

\* the predicate of DEFAULT_FORMATS.filter
FormatAvailable(format, meta, requested) ==
  /\ SplitResolution(format.resolution)[2] <= meta.height
  /\ Includes(requested, format.quality)

\* the test looking in the whole ladder instead of the filtered list
NeedsOriginal_wholeLadder(available, meta) ==
  ~\E i \in 1..Len(DEFAULT_FORMATS) :
      DEFAULT_FORMATS[i].quality = getQualityFromResolution(meta.width, meta.height)

\* !availableFormats.find((f) => f.quality === getQualityFromResolution(...))
NeedsOriginal(available, meta) ==
  ~\E i \in 1..Len(available) :
      available[i].quality = getQualityFromResolution(meta.width, meta.height)

OriginalFormat(meta) ==
  [quality |-> "original", resolution |-> Resolution(meta.width, meta.height),
   bitrate |-> meta.bitrate, codec |-> "libx264"]

\* the synthetic entry put in front of the ladder entries (unshift for push)
planFormats_originalFirst(meta, formats) ==
  LET requested == requestedFormats(formats)
      Keep(f) == FormatAvailable(f, meta, requested)
      available == SelectSeq(DEFAULT_FORMATS, Keep)
  IN IF NeedsOriginal(available, meta)
       THEN <<OriginalFormat(meta)>> \o available
       ELSE available

\* processVideoFormats up to its loop: the renditions selected for transcoding
planFormats(meta, formats) ==
  LET requested == requestedFormats(formats)
      Keep(f) == FormatAvailable(f, meta, requested)
      available == SelectSeq(DEFAULT_FORMATS, Keep)
  IN IF NeedsOriginal(available, meta)
       THEN Append(available, OriginalFormat(meta))
       ELSE available

PlanIdle ==
  /\ metadata = [width |-> 0, height |-> 0, bitrate |-> "0"]
  /\ optFormats = Undefined
  /\ availableFormats = <<>>
  /\ fpc = "idle"

PlanInit ==
  /\ metadata \in [width : Widths, height : Heights, bitrate : Bitrates]
  /\ optFormats \in {Undefined} \cup {Defined(l) : l \in RequestLists}
  /\ availableFormats = <<>>
  /\ fpc = "start"

\* processVideoFormats, lines 213-230
PlanRenditions ==
  /\ fpc = "start"
  /\ availableFormats' = planFormats(metadata, optFormats)
  /\ fpc' = "planned"
  /\ UNCHANGED <<metadata, optFormats>>
  /\ UNCHANGED <<qvars, bvars, xvars, svars>>

\* ------------------------------------- processVideo and batchProcessVideos
MaxUrls == 4
MaxTime == 1
batchConcurrency == 3

\* metadata.duration as probed, in seconds
Durations == {1, 2}

\* a value is truthy unless it is undefined or 0
Truthy(x) == x # Undefined /\ x[1] # 0

\* processVideo without the duration check
DurationExceeded_unchecked(opts, duration) == FALSE

\* the duration check with >= in place of >
DurationExceeded_atLimit(opts, duration) ==
  Truthy(opts.maxDuration) /\ duration >= opts.maxDuration[1]

\* options.maxDuration && metadata.duration > options.maxDuration
DurationExceeded(opts, duration) ==
  Truthy(opts.maxDuration) /\ duration > opts.maxDuration[1]

\* `/tmp/video_processing_${Date.now()}`
TempDir(t) == t

IdleRun == [pc |-> "idle", tempDir |-> 0, threw |-> FALSE]

\* the URLs of the chunk that starts at index i: videoUrls.slice(i, i + concurrency)
Chunk(i) == {r \in 1..Len(videoUrls) : i < r /\ r <= i + batchConcurrency}

RunsInFlight == {r \in 1..Len(runs) : runs[r].pc \notin {"idle", "settled"}}

\* batch.map(...): processVideo is called for every URL of the chunk, one after
\* the other in the same task; each call reads Date.now() and awaits fs.mkdir.
\* The clock may tick once in between: the first k calls read `now`.
StartChunk(runsNow, i, k) ==
  /\ k \in 0..Cardinality(Chunk(i))
  /\ k < Cardinality(Chunk(i)) => now < MaxTime
  /\ now' = IF k < Cardinality(Chunk(i)) THEN now + 1 ELSE now
  /\ runs' = [r \in 1..Len(runsNow) |->
                IF r \in Chunk(i)
                  THEN [pc |-> "mkdir",
                        tempDir |-> TempDir(IF r - i <= k THEN now ELSE now + 1),
                        threw |-> FALSE]
                  ELSE runsNow[r]]

\* the loop of batchProcessVideos from index i on: start the chunk, or return
BatchLoop(runsNow, i) ==
  /\ bi' = i
  /\ IF i < Len(videoUrls)
       THEN /\ \E k \in 0..batchConcurrency : StartChunk(runsNow, i, k)
            /\ bpc' = "running"
       ELSE /\ runs' = runsNow
            /\ bpc' = "done"
            /\ UNCHANGED now

\* forEach pushing every result, rejected ones too
Fulfilled_all(runsNow, from, to) ==
  IF from > to THEN <<>> ELSE [x \in 1..(to - from + 1) |-> from + x - 1]

\* batchResults.forEach: the fulfilled runs of the chunk, in order
RECURSIVE Fulfilled(_, _, _)
Fulfilled(runsNow, from, to) ==
  IF from > to THEN <<>>
  ELSE (IF runsNow[from].threw THEN <<>> ELSE <<from>>) \o Fulfilled(runsNow, from + 1, to)

\* going on as soon as one run of the chunk has settled (Promise.race)
SettleRun_anySettled(r, runsNow) ==
  IF \E x \in Chunk(bi) : runsNow[x].pc = "settled"
    THEN /\ results' = results \o Fulfilled(runsNow, bi + 1, Min(bi + batchConcurrency, Len(videoUrls)))
         /\ BatchLoop(runsNow, bi + batchConcurrency)
    ELSE /\ runs' = runsNow
         /\ UNCHANGED <<results, bi, bpc, now>>

\* The promise of run r settles.  When it is the last of its chunk,
\* Promise.allSettled resolves and batchProcessVideos collects the chunk and
\* goes on with the next one.
SettleRun(r, runsNow) ==
  IF \A x \in Chunk(bi) : runsNow[x].pc = "settled"
    THEN /\ results' = results \o Fulfilled(runsNow, bi + 1, Min(bi + batchConcurrency, Len(videoUrls)))
         /\ BatchLoop(runsNow, bi + batchConcurrency)
    ELSE /\ runs' = runsNow
         /\ UNCHANGED <<results, bi, bpc, now>>

\* a stage of run r resolves and the run awaits the next stage
Advance(r, to) ==
  /\ runs' = [runs EXCEPT ![r].pc = to]
  /\ UNCHANGED <<now, dirs, videoUrls, options, bi, results, bpc>>
  /\ UNCHANGED <<qvars, pvars, xvars, svars>>

\* a stage of run r throws: catch, rethrow, and the finally block awaits fs.rm
HardFail(r) ==
  /\ runs' = [runs EXCEPT ![r].pc = "rm", ![r].threw = TRUE]
  /\ UNCHANGED <<now, dirs, videoUrls, options, bi, results, bpc>>
  /\ UNCHANGED <<qvars, pvars, xvars, svars>>

\* batchProcessVideos(videoUrls, options) is called
BatchCall ==
  /\ bpc = "start"
  /\ BatchLoop(runs, 0)
  /\ UNCHANGED <<dirs, videoUrls, options, results>>
  /\ UNCHANGED <<qvars, pvars, xvars, svars>>

\* a millisecond passes
Tick ==
  /\ now < MaxTime
  /\ now' = now + 1
  /\ UNCHANGED <<dirs, videoUrls, options, runs, bi, results, bpc>>
  /\ UNCHANGED <<qvars, pvars, xvars, svars>>

\* fs.mkdir(tempDir, {recursive: true}) resolves (also when the directory exists)
MkdirDone(r) ==
  /\ runs[r].pc = "mkdir"
  /\ dirs' = dirs \cup {runs[r].tempDir}
  /\ runs' = [runs EXCEPT ![r].pc = "download"]
  /\ UNCHANGED <<now, videoUrls, options, bi, results, bpc>>
  /\ UNCHANGED <<qvars, pvars, xvars, svars>>

MkdirFail(r) ==
  /\ runs[r].pc = "mkdir"
  /\ HardFail(r)

\* downloadVideo writes input.mp4 into the scratch directory
DownloadDone(r) ==
  /\ runs[r].pc = "download"
  /\ runs[r].tempDir \in dirs
  /\ Advance(r, "probe")

DownloadFail(r) ==
  /\ runs[r].pc = "download"
  /\ HardFail(r)

\* getVideoMetadata resolves with duration d, then the duration check
ProbeDone(r, d) ==
  /\ runs[r].pc = "probe"
  /\ IF DurationExceeded(options, d) THEN HardFail(r) ELSE Advance(r, "stat")

\* getVideoMetadata rejects (ffprobe error, no video stream)
ProbeFail(r) ==
  /\ runs[r].pc = "probe"
  /\ HardFail(r)

\* fs.stat(inputPath)
StatDone(r) ==
  /\ runs[r].pc = "stat"
  /\ runs[r].tempDir \in dirs
  /\ Advance(r, "formats")

StatFail(r) ==
  /\ runs[r].pc = "stat"
  /\ HardFail(r)

\* processVideoFormats returns (it catches every failure of a rendition)
FormatsDone(r) ==
  /\ runs[r].pc = "formats"
  /\ Advance(r, IF options.generateThumbnails # FALSE THEN "thumbs" ELSE "rm")

\* generateThumbnails returns (it catches every failure of a thumbnail); the
\* manifest is assembled and the finally block awaits fs.rm
ThumbsDone(r) ==
  /\ runs[r].pc = "thumbs"
  /\ Advance(r, "rm")

\* fs.rm(tempDir, {recursive: true, force: true}) resolves
RmDone(r) ==
  /\ runs[r].pc = "rm"
  /\ dirs' = dirs \ {runs[r].tempDir}
  /\ SettleRun(r, [runs EXCEPT ![r].pc = "settled"])
  /\ UNCHANGED <<videoUrls, options>>
  /\ UNCHANGED <<qvars, pvars, xvars, svars>>

\* fs.rm rejects: the inner catch logs a warning and the run settles
RmFail(r) ==
  /\ runs[r].pc = "rm"
  /\ SettleRun(r, [runs EXCEPT ![r].pc = "settled"])
  /\ UNCHANGED <<dirs, videoUrls, options>>
  /\ UNCHANGED <<qvars, pvars, xvars, svars>>

BatchIdle ==
  /\ now = 0
  /\ dirs = {}
  /\ videoUrls = <<>>
  /\ options = [maxDuration |-> Undefined, generateThumbnails |-> TRUE]
  /\ runs = <<>>
  /\ bi = 0
  /\ results = <<>>
  /\ bpc = "idle"

BatchInit ==
  /\ now = 0
  /\ dirs = {}
  /\ videoUrls \in {[r \in 1..n |-> r] : n \in 0..MaxUrls}
  /\ options \in [maxDuration : {Undefined, Defined(0), Defined(1)},
                  generateThumbnails : BOOLEAN]
  /\ runs = [r \in 1..Len(videoUrls) |-> IdleRun]
  /\ bi = 0
  /\ results = <<>>
  /\ bpc = "start"

BatchNext ==
  \/ BatchCall
  \/ Tick
  \/ \E r \in 1..Len(runs) : MkdirDone(r)
  \/ \E r \in 1..Len(runs) : MkdirFail(r)
  \/ \E r \in 1..Len(runs) : DownloadDone(r)
  \/ \E r \in 1..Len(runs) : DownloadFail(r)
  \/ \E r \in 1..Len(runs), d \in Durations : ProbeDone(r, d)
  \/ \E r \in 1..Len(runs) : ProbeFail(r)
  \/ \E r \in 1..Len(runs) : StatDone(r)
  \/ \E r \in 1..Len(runs) : StatFail(r)
  \/ \E r \in 1..Len(runs) : FormatsDone(r)
  \/ \E r \in 1..Len(runs) : ThumbsDone(r)
  \/ \E r \in 1..Len(runs) : RmDone(r)
  \/ \E r \in 1..Len(runs) : RmFail(r)

\* ---------------------------------------------------------- queue actions

\* videoUpload.secure_url: the blob store gives every upload its own URL
SecureUrl(v) == <<"video_url", v>>

\* POST upload: INSERT the row as `pending`, then queueVideoProcessing
Upload ==
  /\ UNCHANGED <<pvars, bvars, xvars, svars>>
  /\ Len(status) < MaxVideos
  /\ Len(jobs) < MaxJobs
  /\ status' = Append(status, "pending")
  /\ videoUrl' = Append(videoUrl, SecureUrl(Len(status) + 1))
  /\ adminPending' = Append(adminPending, 0)
  /\ addJob(Len(status) + 1, SecureUrl(Len(status) + 1))

\* the `processing` write resolves
ProcessingWriteDone(j) ==
  /\ UNCHANGED <<pvars, bvars, xvars, svars>>
  /\ pc[j] = "q1"
  /\ status' = [status EXCEPT ![jobs[j].videoId] = "processing"]
  /\ pc' = [pc EXCEPT ![j] = "pv"]
  /\ UNCHANGED <<queue, processing, jobs, calls, timerDelay, attempts, passes, immediates, videoUrl, adminPending>>

\* the `processing` write throws
ProcessingWriteFail(j) ==
  /\ pc[j] = "q1"
  /\ CatchFailure(j)

\* processVideo returns a manifest
PipelineReturn(j) ==
  /\ UNCHANGED <<pvars, bvars, xvars, svars>>
  /\ pc[j] = "pv"
  /\ pc' = [pc EXCEPT ![j] = "q2"]
  /\ UNCHANGED <<queue, processing, jobs, calls, timerDelay, attempts, passes, immediates, status, videoUrl, adminPending>>

\* processVideo throws (hard failure)
PipelineThrow(j) ==
  /\ pc[j] = "pv"
  /\ CatchFailure(j)

\* the `completed` write resolves
CompletedWriteDone(j) ==
  /\ UNCHANGED <<pvars, bvars, xvars, svars>>
  /\ pc[j] = "q2"
  /\ status' = [status EXCEPT ![jobs[j].videoId] = "completed"]
  /\ pc' = [pc EXCEPT ![j] = "completed"]
  /\ SettleJob(j)
  /\ UNCHANGED <<queue, jobs, calls, timerDelay, attempts, videoUrl, adminPending>>

\* a failed `completed` write giving the job up at once, without the catch
\* block's count and retry
CompletedWriteFail_givesUp(j) ==
  /\ pc[j] = "q2"
  /\ pc' = [pc EXCEPT ![j] = "q3"]
  /\ UNCHANGED <<queue, processing, jobs, calls, timerDelay, attempts, passes, immediates,
                 status, videoUrl, adminPending>>
  /\ UNCHANGED <<pvars, bvars, xvars, svars>>

\* the `completed` write throws
CompletedWriteFail(j) ==
  /\ pc[j] = "q2"
  /\ CatchFailure(j)

\* the `failed` write resolves
FailedWriteDone(j) ==
  /\ UNCHANGED <<pvars, bvars, xvars, svars>>
  /\ pc[j] = "q3"
  /\ status' = [status EXCEPT ![jobs[j].videoId] = "failed"]
  /\ pc' = [pc EXCEPT ![j] = "failed"]
  /\ SettleJob(j)
  /\ UNCHANGED <<queue, jobs, calls, timerDelay, attempts, videoUrl, adminPending>>

\* the `failed` write throws inside the catch block: processJob rejects
FailedWriteFail(j) ==
  /\ UNCHANGED <<pvars, bvars, xvars, svars>>
  /\ pc[j] = "q3"
  /\ pc' = [pc EXCEPT ![j] = "rejected"]
  /\ SettleJob(j)
  /\ UNCHANGED <<queue, jobs, calls, timerDelay, attempts, status, videoUrl, adminPending>>

\* push for unshift
Requeue_atTail(j, q) == Append(q, j)

\* this.queue.unshift(job)
Requeue(j, q) == <<j>> \o q

\* the retry timer of job j fires
RetryTimer(j) ==
  /\ UNCHANGED <<pvars, bvars, xvars, svars>>
  /\ pc[j] = "timer"
  /\ ApplyStart(triggerQueue(Requeue(j, queue), processing),
                [pc EXCEPT ![j] = "queued"], attempts)
  /\ UNCHANGED <<jobs, calls, timerDelay, immediates, status, videoUrl, adminPending>>

\* setImmediate(() => this.processQueue()) fires
Immediate ==
  /\ UNCHANGED <<pvars, bvars, xvars, svars>>
  /\ immediates > 0
  /\ immediates' = immediates - 1
  /\ ApplyStart(processQueue(queue, processing), pc, attempts)
  /\ UNCHANGED <<jobs, calls, timerDelay, status, videoUrl, adminPending>>

\* number of admin retry requests in progress
RECURSIVE SeqSum(_)
SeqSum(s) == IF s = <<>> THEN 0 ELSE Head(s) + SeqSum(Tail(s))

\* the status check answering 400 for no status at all
NotFailed_never(st) == FALSE

\* video.processing_status !== "failed"
NotFailed(st) == st # "failed"

\* POST /admin/:id/retry-processing, up to the UPDATE: the SELECT and the
\* status check (400 unless the row is `failed`)
AdminSelect(v) ==
  /\ UNCHANGED <<pvars, bvars, xvars, svars>>
  /\ SeqSum(adminPending) < MaxAdmin
  /\ adminPending' = IF NotFailed(status[v]) THEN adminPending
                                              ELSE [adminPending EXCEPT ![v] = @ + 1]
  /\ UNCHANGED <<queue, processing, jobs, calls, timerDelay, pc, attempts, passes, immediates, status, videoUrl>>

\* the UPDATE to `pending` resolves, then queueVideoProcessing
AdminUpdateDone(v) ==
  /\ UNCHANGED <<pvars, bvars, xvars, svars>>
  /\ adminPending[v] > 0
  /\ Len(jobs) < MaxJobs
  /\ adminPending' = [adminPending EXCEPT ![v] = @ - 1]
  /\ status' = [status EXCEPT ![v] = "pending"]
  /\ addJob(v, videoUrl[v])
  /\ UNCHANGED videoUrl

QueueInit ==
  /\ queue = <<>>
  /\ processing = FALSE
  /\ jobs = <<>>
  /\ pc = <<>>
  /\ attempts = <<>>
  /\ passes = {}
  /\ immediates = 0
  /\ calls = <<>>
  /\ timerDelay = <<>>
  /\ status = <<>>
  /\ videoUrl = <<>>
  /\ adminPending = <<>>

\* the UPDATE throws: the handler answers 500 and enqueues nothing
AdminUpdateFail(v) ==
  /\ UNCHANGED <<pvars, bvars, xvars, svars>>
  /\ adminPending[v] > 0
  /\ adminPending' = [adminPending EXCEPT ![v] = @ - 1]
  /\ UNCHANGED <<queue, processing, jobs, calls, timerDelay, pc, attempts, passes, immediates, status, videoUrl>>

\* ------------------------- processJob and processVideo of one job, in detail
MaxDuration == 60
MaxCount == 5

\* the options the upload handler and the admin retry handler pass, no options
\* at all, and two more option records a caller of queueVideoProcessing may pass
UploadOptions ==
  [generateThumbnails |-> Defined(TRUE), thumbnailCount |-> Defined(5),
   formats |-> Defined(<<"360p", "720p", "1080p">>), maxDuration |-> Defined(300)]

AdminRetryOptions ==
  [generateThumbnails |-> Defined(TRUE), thumbnailCount |-> Defined(5),
   formats |-> Defined(<<"360p", "720p", "1080p">>), maxDuration |-> Undefined]

NoOptions ==
  [generateThumbnails |-> Undefined, thumbnailCount |-> Undefined,
   formats |-> Undefined, maxDuration |-> Undefined]

OptionRecords ==
  { UploadOptions, AdminRetryOptions, NoOptions,
    [generateThumbnails |-> Defined(FALSE), thumbnailCount |-> Undefined,
     formats |-> Defined(<<"360p", "720p">>), maxDuration |-> Defined(60)],
    [generateThumbnails |-> Undefined, thumbnailCount |-> Defined(1),
     formats |-> Defined(<<"360p", "720p">>), maxDuration |-> Defined(0)] }

\* what getVideoMetadata may resolve with
ProbeResults ==
  { [width |-> 426, height |-> 240, bitrate |-> "3000000"],
    [width |-> 1280, height |-> 720, bitrate |-> "3000000"],
    [width |-> 1920, height |-> 1080, bitrate |-> "3000000"] }

ProbedDurations == {60, 301}

\* exact arithmetic on the non-negative numbers a / b, kept in lowest terms
RECURSIVE GCD(_, _)
GCD(a, b) == IF b = 0 THEN a ELSE GCD(b, a % b)

Ratio(a, b) == <<a \div GCD(a, b), b \div GCD(a, b)>>
Times(q, k) == Ratio(q[1] * k, q[2])
Less(p, q) == p[1] * q[2] < q[1] * p[2]
Whole(n) == <<n, 1>>

\* options.thumbnailCount || 5
ThumbnailCount(opts) ==
  IF Truthy(opts.thumbnailCount) THEN opts.thumbnailCount[1] ELSE 5

\* the loop counting from 0 without the + 1
Timestamps_fromZero(duration, count) ==
  [i \in 1..count |-> Times(Ratio(duration, count + 1), i - 1)]

\* generateThumbnails, lines 319-323: timestamps[i] for the loop's i = 0..count-1
\* is element i + 1 here
Timestamps(duration, count) ==
  [i \in 1..count |-> Times(Ratio(duration, count + 1), i)]

\* uploadResult.secure_url of uploadToCloudinary(path, publicId): the blob
\* store answers a successful upload with the URL of the stored asset
UploadedUrl(publicId) == <<"processed_videos", publicId>>

\* stats.size of a file the media engine has written: at least one byte
StatSize == 1

IdlePipeline ==
  [pc |-> "idle", threw |-> FALSE,
   metadata |-> [width |-> 0, height |-> 0, bitrate |-> "0"], duration |-> 0,
   availableFormats |-> <<>>, fi |-> 0, formats |-> <<>>, formatFailures |-> {},
   timestamps |-> <<>>, ti |-> 0, thumbnails |-> <<>>, thumbFailures |-> {},
   engineCalls |-> {}]

PipeIdle ==
  /\ jobOpts = NoOptions
  /\ pv = IdlePipeline
  /\ row = Undefined

\* the only job of this specification, and whether its processVideo call is
\* awaiting stage s
TheJob == 1
Awaiting(s) == jobs # <<>> /\ pc[TheJob] = "pv" /\ pv.pc = s

\* a step inside processVideo: the queue, the row and the options stay
PvStep(next) ==
  /\ pv' = next
  /\ UNCHANGED <<qvars, pvars, bvars, jobOpts, row, svars>>

\* catch, rethrow; the finally block awaits fs.rm
PvHardFail == [pv EXCEPT !.pc = "rm", !.threw = TRUE]

\* processVideo refusing a manifest without renditions
PvFinish_throwsIfEmpty(p) == [p EXCEPT !.pc = "rm", !.threw = (p.formats = <<>>)]

\* the manifest is assembled and returned; the finally block awaits fs.rm
PvFinish(p) == [p EXCEPT !.pc = "rm"]

\* const thumbnails = options.generateThumbnails !== false ? await
\* generateThumbnails(..., options.thumbnailCount || 5) : [] with p the locals
\* when processVideoFormats has returned: the timestamps are computed and the
\* first extraction is started, or there is nothing to extract
StartThumbnails(p) ==
  IF jobOpts.generateThumbnails = Defined(FALSE)
    THEN PvFinish(p)
    ELSE LET ts == Timestamps(p.duration, ThumbnailCount(jobOpts))
         IN IF Len(ts) = 0
              THEN PvFinish([p EXCEPT !.timestamps = ts])
              ELSE [p EXCEPT !.timestamps = ts, !.ti = 1, !.pc = "extract",
                             !.engineCalls = @ \cup {"thumbnail"}]

\* a failed rendition pushing an entry without url and size
FormatCaught_placeholder(p, stage) ==
  [p EXCEPT !.formatFailures = @ \cup {<<p.availableFormats[p.fi].quality, stage>>},
            !.formats = Append(@, [quality |-> p.availableFormats[p.fi].quality,
                                   resolution |-> p.availableFormats[p.fi].resolution,
                                   bitrate |-> p.availableFormats[p.fi].bitrate,
                                   url |-> <<>>, size |-> 0,
                                   codec |-> p.availableFormats[p.fi].codec])]

\* the catch of the rendition loop leaving the loop (return for continue)
FormatCaught_leavesLoop(p, stage) ==
  [p EXCEPT !.formatFailures = @ \cup {<<p.availableFormats[p.fi].quality, stage>>},
            !.fi = Len(p.availableFormats)]

\* the catch of the rendition loop: log and continue
FormatCaught(p, stage) ==
  [p EXCEPT !.formatFailures = @ \cup {<<p.availableFormats[p.fi].quality, stage>>}]

\* the end of an iteration of the rendition loop: the next rendition's
\* transcode is started, or processVideoFormats returns
NextFormat(p) ==
  IF p.fi < Len(p.availableFormats)
    THEN [p EXCEPT !.fi = @ + 1, !.pc = "transcode"]
    ELSE StartThumbnails(p)

\* a failed thumbnail pushing an entry without url and size
ThumbCaught_placeholder(p) ==
  [p EXCEPT !.thumbFailures = @ \cup {p.ti},
            !.thumbnails = Append(@, [url |-> <<>>, timestamp |-> p.timestamps[p.ti],
                                      width |-> 320, height |-> 180, size |-> 0])]

\* the catch of the thumbnail loop: log and continue
ThumbCaught(p) == [p EXCEPT !.thumbFailures = @ \cup {p.ti}]

\* the end of an iteration of the thumbnail loop
NextThumbnail(p) ==
  IF p.ti < Len(p.timestamps)
    THEN [p EXCEPT !.ti = @ + 1, !.pc = "extract"]
    ELSE PvFinish(p)

\* queueVideoProcessing(videoId, videoUrl, opts) for a row stored as `pending`
PjAdmit(opts) ==
  /\ jobs = <<>>
  /\ jobOpts' = opts
  /\ status' = Append(status, "pending")
  /\ videoUrl' = Append(videoUrl, SecureUrl(Len(status) + 1))
  /\ adminPending' = Append(adminPending, 0)
  /\ addJob(Len(status) + 1, SecureUrl(Len(status) + 1))
  /\ UNCHANGED <<pv, row, svars>>
  /\ UNCHANGED <<pvars, bvars>>

\* the `processing` write resolves and processVideo is called: it awaits fs.mkdir
PjProcessingWriteDone ==
  /\ jobs # <<>>
  /\ pc[TheJob] = "q1"
  /\ status' = [status EXCEPT ![jobs[TheJob].videoId] = "processing"]
  /\ pc' = [pc EXCEPT ![TheJob] = "pv"]
  /\ pv' = [IdlePipeline EXCEPT !.pc = "mkdir"]
  /\ UNCHANGED <<queue, processing, jobs, calls, timerDelay, attempts, passes, immediates, videoUrl, adminPending>>
  /\ UNCHANGED <<pvars, bvars, jobOpts, row, svars>>

PvMkdirDone == Awaiting("mkdir") /\ PvStep([pv EXCEPT !.pc = "download"])
PvMkdirFail == Awaiting("mkdir") /\ PvStep(PvHardFail)

PvDownloadDone == Awaiting("download") /\ PvStep([pv EXCEPT !.pc = "probe"])
PvDownloadFail == Awaiting("download") /\ PvStep(PvHardFail)

\* getVideoMetadata resolves, then the duration check
PvProbeDone(m, d) ==
  /\ Awaiting("probe")
  /\ IF DurationExceeded(jobOpts, d)
       THEN PvStep([PvHardFail EXCEPT !.metadata = m, !.duration = d])
       ELSE PvStep([pv EXCEPT !.metadata = m, !.duration = d, !.pc = "stat"])

PvProbeFail == Awaiting("probe") /\ PvStep(PvHardFail)

\* fs.stat(inputPath) resolves and processVideoFormats is called: it selects
\* the renditions and starts the transcode of the first
PvStatDone ==
  /\ Awaiting("stat")
  /\ PvStep([pv EXCEPT !.availableFormats = planFormats(pv.metadata, jobOpts.formats),
                       !.fi = 1, !.pc = "transcode",
                       !.engineCalls = @ \cup {"transcode"}])

PvStatFail == Awaiting("stat") /\ PvStep(PvHardFail)

\* processVideoFormat resolves: the upload of the encoded file is started
TranscodeDone ==
  /\ Awaiting("transcode")
  /\ PvStep([pv EXCEPT !.pc = "upload", !.engineCalls = @ \cup {"upload"}])

TranscodeThrow ==
  /\ Awaiting("transcode")
  /\ PvStep(NextFormat(FormatCaught(pv, "transcode")))

\* uploadToCloudinary resolves: fs.stat(outputPath) is awaited
UploadDone == Awaiting("upload") /\ PvStep([pv EXCEPT !.pc = "fstat"])

UploadThrow ==
  /\ Awaiting("upload")
  /\ PvStep(NextFormat(FormatCaught(pv, "upload")))

\* fs.stat(outputPath) resolves: formats.push
FormatStatDone ==
  /\ Awaiting("fstat")
  /\ LET f == pv.availableFormats[pv.fi]
     IN PvStep(NextFormat([pv EXCEPT !.formats =
          Append(@, [quality |-> f.quality, resolution |-> f.resolution,
                     bitrate |-> f.bitrate,
                     url |-> UploadedUrl(<<"video_", f.quality>>),
                     size |-> StatSize, codec |-> f.codec])]))

FormatStatThrow ==
  /\ Awaiting("fstat")
  /\ PvStep(NextFormat(FormatCaught(pv, "stat")))

\* generateSingleThumbnail resolves: the upload of the frame is started
ExtractDone ==
  /\ Awaiting("extract")
  /\ PvStep([pv EXCEPT !.pc = "tupload", !.engineCalls = @ \cup {"upload"}])

\* an iteration of the thumbnail loop throws, at the extraction, the upload or
\* the stat: log and continue
ThumbnailThrow ==
  /\ jobs # <<>> /\ pc[TheJob] = "pv"
  /\ pv.pc \in {"extract", "tupload", "tstat"}
  /\ PvStep(NextThumbnail(ThumbCaught(pv)))

ThumbUploadDone == Awaiting("tupload") /\ PvStep([pv EXCEPT !.pc = "tstat"])

\* fs.stat(thumbnailPath) resolves: thumbnails.push
ThumbStatDone ==
  /\ Awaiting("tstat")
  /\ PvStep(NextThumbnail([pv EXCEPT !.thumbnails =
       Append(@, [url |-> UploadedUrl(<<"thumbnail_", pv.ti - 1>>),
                  timestamp |-> pv.timestamps[pv.ti],
                  width |-> 320, height |-> 180, size |-> StatSize])]))

\* fs.rm settles (a rejection is caught and logged) after the manifest was
\* assembled: processVideo returns it and processJob issues the `completed` write
PvReturn ==
  /\ Awaiting("rm") /\ ~pv.threw
  /\ PipelineReturn(TheJob)

\* fs.rm settles after a hard failure: processVideo throws into processJob's catch
PvThrow ==
  /\ Awaiting("rm") /\ pv.threw
  /\ PipelineThrow(TheJob)

\* the UPDATE with result.thumbnails and result.formats in each other's place
CompletedRow_swapped(p) ==
  [processed_formats |-> p.thumbnails, thumbnails |-> p.formats,
   metadata |-> p.metadata, duration |-> p.duration]

\* the parameters $2..$5 of the `completed` UPDATE: result.formats,
\* result.thumbnails and result.metadata (each column holds the JSON text of
\* the value shown here) and result.duration, p being the locals of the
\* processVideo call that returned `result`
CompletedRow(p) ==
  [processed_formats |-> p.formats, thumbnails |-> p.thumbnails,
   metadata |-> p.metadata, duration |-> p.duration]

\* the `completed` write resolves: status and manifest columns are stored
PjCompletedWriteDone ==
  /\ jobs # <<>>
  /\ pc[TheJob] = "q2"
  /\ status' = [status EXCEPT ![jobs[TheJob].videoId] = "completed"]
  /\ row' = Defined(CompletedRow(pv))
  /\ pc' = [pc EXCEPT ![TheJob] = "completed"]
  /\ SettleJob(TheJob)
  /\ UNCHANGED <<queue, jobs, calls, timerDelay, attempts, videoUrl, adminPending>>
  /\ UNCHANGED <<pvars, bvars, jobOpts, pv, svars>>

PipeNext ==
  \/ \E opts \in OptionRecords : PjAdmit(opts)
  \/ PjProcessingWriteDone
  \/ \E j \in JobIds : ProcessingWriteFail(j)
  \/ PvMkdirDone \/ PvMkdirFail
  \/ PvDownloadDone \/ PvDownloadFail
  \/ \E m \in ProbeResults, d \in ProbedDurations : PvProbeDone(m, d)
  \/ PvProbeFail
  \/ PvStatDone \/ PvStatFail
  \/ TranscodeDone \/ TranscodeThrow
  \/ UploadDone \/ UploadThrow
  \/ FormatStatDone \/ FormatStatThrow
  \/ ExtractDone \/ ThumbUploadDone \/ ThumbStatDone \/ ThumbnailThrow
  \/ PvReturn \/ PvThrow
  \/ PjCompletedWriteDone
  \/ \E j \in JobIds : CompletedWriteFail(j)
  \/ \E j \in JobIds : FailedWriteDone(j)
  \/ \E j \in JobIds : FailedWriteFail(j)
  \/ \E j \in JobIds : RetryTimer(j)

\* generateThumbnails on its own, over every duration and every count
ThumbInit ==
  /\ jobOpts \in {[NoOptions EXCEPT !.thumbnailCount = c] :
                    c \in {Undefined} \cup {Defined(n) : n \in 0..MaxCount}}
  /\ pv \in {[IdlePipeline EXCEPT !.pc = "thumbs", !.duration = d] : d \in 0..MaxDuration}
  /\ row = Undefined

\* generateThumbnails is called
CallGenerateThumbnails ==
  /\ pv.pc = "thumbs"
  /\ pv' = StartThumbnails(pv)
  /\ UNCHANGED <<qvars, pvars, bvars, jobOpts, row, svars>>

ThumbNext == CallGenerateThumbnails

\* the snapshot of getQueueStatus with the jobs in flight counted in
getQueueStatus_countsActive ==
  [queueLength |-> Len(queue) + Cardinality(InFlight), processing |-> processing]

\* getQueueStatus(): { queueLength: this.queue.length, processing: this.processing }
getQueueStatus ==
  [queueLength |-> Len(queue), processing |-> processing]

\* GET /admin/processing-status, after its two SELECTs: the handler calls
\* getQueueStatus and answers with the snapshot in the same task
GetQueueStatus ==
  /\ queueStatus = Undefined
  /\ queueStatus' = Defined(getQueueStatus)
  /\ UNCHANGED <<qvars, pvars, bvars, xvars>>

StatusIdle == queueStatus = Undefined

Init ==
  /\ QueueInit
  /\ PlanIdle
  /\ BatchIdle
  /\ PipeIdle
  /\ StatusIdle

Next ==
  \/ Upload
  \/ \E j \in JobIds : ProcessingWriteDone(j)
  \/ \E j \in JobIds : ProcessingWriteFail(j)
  \/ \E j \in JobIds : PipelineReturn(j)
  \/ \E j \in JobIds : PipelineThrow(j)
  \/ \E j \in JobIds : CompletedWriteDone(j)
  \/ \E j \in JobIds : CompletedWriteFail(j)
  \/ \E j \in JobIds : FailedWriteDone(j)
  \/ \E j \in JobIds : FailedWriteFail(j)
  \/ \E j \in JobIds : RetryTimer(j)
  \/ Immediate
  \/ \E v \in VideoIds : AdminSelect(v)
  \/ \E v \in VideoIds : AdminUpdateDone(v)
  \/ \E v \in VideoIds : AdminUpdateFail(v)

Spec == Init /\ [][Next]_vars

\* the planner on its own, over every source and every requested list
PlanNext == PlanRenditions

PlanStart ==
  /\ QueueInit
  /\ PlanInit
  /\ BatchIdle
  /\ PipeIdle
  /\ StatusIdle

PlanSpec == PlanStart /\ [][PlanNext]_vars

\* batchProcessVideos and the processVideo runs it starts
BatchStart ==
  /\ QueueInit
  /\ PlanIdle
  /\ BatchInit
  /\ PipeIdle
  /\ StatusIdle

BatchSpec == BatchStart /\ [][BatchNext]_vars

\* one job from its admission to its last attempt, with every await of
\* processVideo and of its two loops
PipeSpec == Init /\ [][PipeNext]_vars

\* the thumbnail timestamps
ThumbStart ==
  /\ QueueInit
  /\ PlanIdle
  /\ BatchIdle
  /\ ThumbInit
  /\ StatusIdle

ThumbSpec == ThumbStart /\ [][ThumbNext]_vars

\* the queue fed by uploads, up to the moment an operator asks for its status
QueueStep ==
  \/ Upload
  \/ \E j \in JobIds : ProcessingWriteDone(j)
  \/ \E j \in JobIds : ProcessingWriteFail(j)
  \/ \E j \in JobIds : PipelineReturn(j)
  \/ \E j \in JobIds : PipelineThrow(j)
  \/ \E j \in JobIds : CompletedWriteDone(j)
  \/ \E j \in JobIds : CompletedWriteFail(j)
  \/ \E j \in JobIds : FailedWriteDone(j)
  \/ \E j \in JobIds : FailedWriteFail(j)
  \/ \E j \in JobIds : RetryTimer(j)
  \/ Immediate

StatusNext ==
  \/ queueStatus = Undefined /\ QueueStep
  \/ GetQueueStatus

StatusSpec == Init /\ [][StatusNext]_vars

\* The scheduling the runtime guarantees: a database call and a pipeline run
\* terminate, a timer and a setImmediate callback fire.
JobStep(j) ==
  /\ j \in JobIds
  /\ \/ ProcessingWriteDone(j) \/ ProcessingWriteFail(j)
     \/ PipelineReturn(j) \/ PipelineThrow(j)
     \/ CompletedWriteDone(j) \/ CompletedWriteFail(j)
     \/ FailedWriteDone(j) \/ FailedWriteFail(j)
     \/ RetryTimer(j)

Fairness ==
  /\ \A j \in 1..MaxJobs : WF_vars(JobStep(j))
  /\ WF_vars(Immediate)

FairSpec == Init /\ [][Next]_vars /\ Fairness

\* ------------------------------------------------------------------ claims

\* C1: in every reachable state the number of jobs whose processJob has
\* started and not settled is at most the concurrency limit (2).
C1_ConcurrencyLimit == Cardinality(InFlight) <= concurrency

\* C1 witness: a job is in flight while another waits in the queue, after a
\* failure and a retry timer have already restarted some job.
C1_Witness ==
  /\ Cardinality(InFlight) >= 1
  /\ Len(queue) >= 1
  /\ \E j \in JobIds : attempts[j] >= 2

\* C2 (as claimed): every job admitted by addJob is eventually started.
C2_EveryJobStarted ==
  \A j \in 1..MaxJobs : (j \in JobIds) ~> (j \in JobIds /\ attempts[j] >= 1)

\* C3: every failed attempt of processJob adds exactly 1 to retryCount, a
\* successful attempt adds nothing, and retryCount never exceeds maxRetries:
\* retryCount is the number of attempts that have failed.
C3_RetryCount ==
  \A j \in JobIds :
    /\ jobs[j].retryCount <= maxRetries
    /\ pc[j] = "queued" => jobs[j].retryCount = attempts[j]
    /\ pc[j] \in {"q1", "pv", "q2"} => jobs[j].retryCount = attempts[j] - 1
    /\ pc[j] \in {"timer", "q3", "failed", "rejected"} => jobs[j].retryCount = attempts[j]
    /\ pc[j] = "completed" => jobs[j].retryCount = attempts[j] - 1

\* C3 witness: one job completed after failed attempts, another used up its
\* retries.
C3_Witness ==
  /\ \E j \in JobIds : pc[j] = "completed" /\ jobs[j].retryCount >= 1
  /\ \E j \in JobIds : jobs[j].retryCount = maxRetries

\* C4 (as claimed): once retryCount has reached maxRetries the persisted
\* status of the job's video is `failed`, no retry timer is pending for the
\* job and the job is not in the queue.
C4_Original ==
  \A j \in JobIds :
    jobs[j].retryCount = jobs[j].maxRetries =>
      /\ status[jobs[j].videoId] = "failed"
      /\ pc[j] # "timer"
      /\ j \notin Range(queue)

C4_Exhausted(j) == jobs[j].retryCount = jobs[j].maxRetries

\* C4 (amended): once retryCount has reached maxRetries, no retry timer is
\* pending for the job and the job is never again in the queue nor started;
\* its last attempt issues the `failed` write, and the step in which that
\* write succeeds leaves the persisted status of its video `failed`.
C4_NoFurtherRetry ==
  /\ [](\A j \in JobIds :
         C4_Exhausted(j) => /\ pc[j] \in {"q3", "failed", "rejected"}
                            /\ j \notin Range(queue))
  /\ [][\A j \in JobIds :
         C4_Exhausted(j) =>
           /\ attempts'[j] = attempts[j]
           /\ j \notin Range(queue')
           /\ pc'[j] \in {"q3", "failed", "rejected"}
           /\ (pc[j] = "q3" /\ pc'[j] = "failed")
                 => status'[jobs[j].videoId] = "failed"]_vars

\* C4 witness: the `failed` write of an exhausted job has succeeded and,
\* later, the admin retry has reset the row.
C4_Witness ==
  \E j \in JobIds :
    /\ C4_Exhausted(j)
    /\ pc[j] = "failed"
    /\ status[jobs[j].videoId] = "pending"

\* C5 (as claimed): a job whose pipeline run hard-fails on every attempt is
\* eventually persisted as `failed`, after maxRetries attempts, whatever other
\* jobs are admitted in the meantime: a job waiting for its retry either sees
\* a later pipeline run return (or its `failed` write throw), or ends
\* persisted as `failed` with maxRetries attempts made.
C5_DoomedJobFails ==
  \A j \in 1..MaxJobs :
    (j \in JobIds /\ pc[j] = "timer") ~>
      (j \in JobIds /\ \/ pc[j] \in {"q2", "completed", "rejected"}
                       \/ /\ status[jobs[j].videoId] = "failed"
                          /\ attempts[j] = maxRetries)

\* C6 (as claimed): after a call of processVideo has settled, by return or by
\* throw, the scratch directory created for it no longer exists.
C6_ScratchRemoved ==
  \A r \in 1..Len(runs) : runs[r].pc = "settled" => runs[r].tempDir \notin dirs

\* C7 (as claimed): no two processVideo runs in flight at the same time use
\* the same scratch directory.
C7_OwnScratch ==
  \A r1, r2 \in RunsInFlight : r1 # r2 => runs[r1].tempDir # runs[r2].tempDir

\* the quality, resolution and bitrate of a selected rendition
C8_Shown(f) == <<f.quality, f.resolution, f.bitrate>>

C8_Case ==
  /\ fpc = "planned"
  /\ metadata.height = 1080
  /\ optFormats = Defined(<<"360p", "720p">>)

\* C8 (as claimed): for source height 1080 and requested ["360p","720p"] the
\* selected renditions are exactly [360p 640x360 800k, 720p 1280x720 2500k].
C8_Original ==
  C8_Case =>
    /\ Len(availableFormats) = 2
    /\ C8_Shown(availableFormats[1]) = <<"360p", Resolution(640, 360), "800k">>
    /\ C8_Shown(availableFormats[2]) = <<"720p", Resolution(1280, 720), "2500k">>

\* C8 (amended): for source height 1080 and requested ["360p","720p"] the
\* selected renditions are exactly [360p 640x360 800k, 720p 1280x720 2500k,
\* original <source width>x1080 <source bitrate>]: no selected entry is
\* labelled 1080p, so the synthetic entry is appended.
C8_PlanFor1080 ==
  C8_Case =>
    /\ Len(availableFormats) = 3
    /\ C8_Shown(availableFormats[1]) = <<"360p", Resolution(640, 360), "800k">>
    /\ C8_Shown(availableFormats[2]) = <<"720p", Resolution(1280, 720), "2500k">>
    /\ C8_Shown(availableFormats[3]) =
         <<"original", Resolution(metadata.width, 1080), metadata.bitrate>>

\* C8 witness: the planner has run on a 1080-high source and ["360p","720p"]
C8_Witness == C8_Case /\ Len(availableFormats) > 0

C9_Case ==
  /\ fpc = "planned"
  /\ metadata.height = 240
  /\ optFormats = Defined(<<"360p", "720p">>)

\* C9: for source height 240 and requested ["360p","720p"] the selected
\* renditions are exactly one entry: quality `original`, the source's own
\* resolution and the source's own bitrate.
C9_PlanFor240 ==
  C9_Case =>
    /\ Len(availableFormats) = 1
    /\ C8_Shown(availableFormats[1]) =
         <<"original", Resolution(metadata.width, metadata.height), metadata.bitrate>>

\* C9 witness: the planner has run on a 240-high source and ["360p","720p"]
C9_Witness == C9_Case /\ metadata.width = 426 /\ Len(availableFormats) = 1

\* C10: for every source height and every requested list the planner selects
\* at least one rendition.
C10_NeverEmpty == fpc = "planned" => Len(availableFormats) >= 1

\* C10 witness: every requested quality exceeds the source height, another
\* requested label is not in the ladder, and the planner has run.
C10_Witness ==
  /\ fpc = "planned"
  /\ optFormats = Defined(<<"1080p", "4k">>)
  /\ metadata.height = 144
  /\ Len(availableFormats) = 1

\* the ladder as the claim reads it: label and height, lowest first
C21_Ladder ==
  << <<"240p", 240>>, <<"360p", 360>>, <<"480p", 480>>, <<"720p", 720>>, <<"1080p", 1080>> >>

\* the requested list R the planner works with
C21_R == IF optFormats = Undefined THEN <<"360p", "720p">> ELSE optFormats[1]

\* the label of the source's own height
C21_OwnLabel(h) ==
  CASE h >= 1080 -> "1080p"
    [] h >= 720 /\ h < 1080 -> "720p"
    [] h >= 480 /\ h < 720 -> "480p"
    [] h >= 360 /\ h < 480 -> "360p"
    [] OTHER -> "240p"

\* the positions of the ladder with height <= h and label in R
C21_Picked(h, R) ==
  {i \in 1..Len(C21_Ladder) : C21_Ladder[i][2] <= h /\ C21_Ladder[i][1] \in Range(R)}

\* C21: for every source height h and requested list R the selected renditions
\* are exactly the ladder entries with height <= h and quality in R, in ladder
\* order and each once, followed by one `original` entry (the source's own
\* resolution and bitrate, codec libx264) if and only if none of those entries
\* has the label of the source's own height.
C21_PlanExact ==
  fpc = "planned" =>
    LET h == metadata.height
        picked == C21_Picked(h, C21_R)
        n == Cardinality(picked)
        own == \E i \in picked : C21_Ladder[i][1] = C21_OwnLabel(h)
    IN /\ Len(availableFormats) = IF own THEN n ELSE n + 1
       /\ \A x \in 1..n :
            /\ \E i \in picked : availableFormats[x] = DEFAULT_FORMATS[i]
            /\ \A y \in 1..n :
                 x < y => \E i, k \in picked :
                            /\ i < k
                            /\ availableFormats[x].quality = C21_Ladder[i][1]
                            /\ availableFormats[y].quality = C21_Ladder[k][1]
       /\ ~own =>
            availableFormats[n + 1] =
              [quality |-> "original",
               resolution |-> Resolution(metadata.width, h),
               bitrate |-> metadata.bitrate, codec |-> "libx264"]

\* C21 witness: two ladder entries were selected, in ladder order although
\* requested in the other order, and `original` follows them because the
\* source's own label (720p) was not requested.
C21_Witness ==
  /\ fpc = "planned"
  /\ metadata.height = 720
  /\ optFormats = Defined(<<"480p", "240p">>)
  /\ Len(availableFormats) = 3
  /\ availableFormats[1].quality = "240p"
  /\ availableFormats[3].quality = "original"

\* C22 (as claimed): when the requested list is absent or empty, the planner
\* selects what it selects for the requested list ["360p", "720p"].
C22_EmptyIsDefault ==
  (fpc = "planned" /\ optFormats \in {Undefined, Defined(<<>>)}) =>
    availableFormats = planFormats(metadata, Defined(<<"360p", "720p">>))

\* the state of a job in the terms of the claim: `active` from the call of
\* processJob until its promise settles or its retry timer is set, `delayed`
\* while the retry timer is pending, `failed` once the retries are used up and
\* processJob has settled
C23_State(p) ==
  CASE p = "queued" -> "queued"
    [] p \in InFlightPcs -> "active"
    [] p = "timer" -> "delayed"
    [] p = "completed" -> "completed"
    [] OTHER -> "failed"

C23_Edges ==
  { <<"queued", "active">>, <<"active", "completed">>, <<"active", "delayed">>,
    <<"active", "failed">>, <<"delayed", "queued">> }

\* how often job j is in this.queue, and in how many activeJobs arrays
C23_InQueue(j) == Cardinality({i \in 1..Len(queue) : queue[i] = j})
C23_InPasses(j) == Cardinality({s \in passes : j \in s})

\* C23: every job follows only the transitions queued -> active ->
\* {completed | requeued-with-delay -> queued | permanently-failed} (a job the
\* timer puts back into an idle queue is taken off again by the same call, so
\* the task ends with it active), and at every moment each admitted job is in
\* exactly one place: once in the queue when queued, in one activeJobs array
\* when active, in neither otherwise.
C23_JobStateMachine ==
  /\ [](/\ Range(queue) \subseteq JobIds
        /\ \A j \in JobIds :
             /\ C23_InQueue(j) = IF C23_State(pc[j]) = "queued" THEN 1 ELSE 0
             /\ C23_InPasses(j) = IF C23_State(pc[j]) = "active" THEN 1 ELSE 0)
  /\ [][/\ \A j \in JobIds :
            \/ C23_State(pc'[j]) = C23_State(pc[j])
            \/ <<C23_State(pc[j]), C23_State(pc'[j])>> \in C23_Edges
            \/ /\ pc[j] = "timer" /\ pc'[j] = "q1"
               /\ ~processing /\ queue' = queue
        /\ Len(jobs') >= Len(jobs)
        /\ \A j \in (1..Len(jobs')) \ JobIds : pc'[j] \in {"queued", "q1"}]_vars

\* C23 witness: one job used up its retries, another failed once, waited for
\* its delay and is back in the queue, and a third is active.
C23_Witness ==
  \E j, k, l \in JobIds :
    /\ pc[l] = "failed"
    /\ pc[j] = "queued" /\ attempts[j] >= 1 /\ C23_InQueue(j) = 1
    /\ pc[k] \in InFlightPcs /\ C23_InPasses(k) = 1

\* C24: within one attempt of a job the status is written as `processing`
\* before the pipeline run starts (the run starts in the step in which that
\* write succeeds, and does nothing at any other position of the job); the job
\* comes to its `completed` write only when the run of that attempt has
\* returned a manifest; and `completed` is stored, by that write only, in the
\* same attempt and together with the formats, thumbnails, metadata and
\* duration of that manifest.
C24_AttemptOrder ==
  /\ [](jobs # <<>> =>
          /\ pv.pc # "idle" => attempts[TheJob] >= 1
          /\ pc[TheJob] = "q2" => (pv.pc = "rm" /\ ~pv.threw))
  /\ [][jobs # <<>> =>
          LET v == jobs[TheJob].videoId
          IN /\ pv' # pv => pc'[TheJob] = "pv"
             /\ (pc[TheJob] # "pv" /\ pc'[TheJob] = "pv") =>
                  /\ pc[TheJob] = "q1"
                  /\ status'[v] = "processing"
                  /\ pv' = [IdlePipeline EXCEPT !.pc = "mkdir"]
             /\ (pc[TheJob] # "q2" /\ pc'[TheJob] = "q2") =>
                  /\ pc[TheJob] = "pv" /\ pv.pc = "rm" /\ ~pv.threw
                  /\ pv' = pv /\ attempts' = attempts
             /\ (status'[v] = "completed" \/ row' # row) =>
                  /\ pc[TheJob] = "q2" /\ pc'[TheJob] = "completed"
                  /\ attempts' = attempts /\ pv' = pv
                  /\ status[v] = "processing" /\ status'[v] = "completed"
                  /\ row' = Defined([processed_formats |-> pv.formats,
                                     thumbnails |-> pv.thumbnails,
                                     metadata |-> pv.metadata,
                                     duration |-> pv.duration])]_vars

\* C24 witness: the second attempt of the job stored `completed` with a
\* manifest that holds a rendition and a thumbnail.
C24_Witness ==
  /\ jobs # <<>> /\ pc[TheJob] = "completed"
  /\ attempts[TheJob] = 2
  /\ status[jobs[TheJob].videoId] = "completed"
  /\ row # Undefined
  /\ Len(row[1].processed_formats) >= 1 /\ Len(row[1].thumbnails) >= 1
  /\ row[1].metadata.height = 720 /\ row[1].duration = 60

\* a job that exists in memory and is not finished: queued, active with its
\* final status write still to come, or waiting for its retry delay
C25_Unfinished(j) == pc[j] \in {"queued", "q1", "pv", "q2", "q3", "timer"}

\* C25 (as claimed): while a job is unfinished, the persisted status of its
\* video is `pending` or `processing`.
C25_UnfinishedNotFinal ==
  \A j \in JobIds :
    C25_Unfinished(j) => status[jobs[j].videoId] \in {"pending", "processing"}

\* C26: while the retry timer set after the k-th failure of a job is pending
\* (k < maxRetries), its delay is 5000 * k ms, 5000 or 10000, and the job is
\* neither in the queue nor active; when the timer fires the job is put at the
\* head of the queue (and the call of processQueue made by the timer, if the
\* queue is idle, starts jobs from that head, this job first).
C26_RetryDelay ==
  /\ [](\A j \in JobIds :
         pc[j] = "timer" =>
           /\ jobs[j].retryCount = attempts[j]
           /\ jobs[j].retryCount \in 1..(maxRetries - 1)
           /\ timerDelay[j] = 5000 * attempts[j]
           /\ timerDelay[j] \in {5000, 10000}
           /\ j \notin Range(queue)
           /\ \A s \in passes : j \notin s)
  /\ [][\A j \in JobIds :
         (pc[j] = "timer" /\ pc'[j] # "timer") =>
           \/ /\ pc'[j] = "queued"
              /\ Len(queue') = Len(queue) + 1
              /\ queue'[1] = j /\ Tail(queue') = queue
           \/ /\ pc'[j] = "q1" /\ ~processing
              /\ \E s \in passes' \ passes :
                   /\ j \in s
                   /\ \A x \in s \ {j} : x \in Range(queue) \ Range(queue')]_vars

\* C26 witness: a job waits for its second retry, 10000 ms after its second
\* failure, while another job waits behind a pass in progress.
C26_Witness ==
  \E j \in JobIds :
    /\ pc[j] = "timer" /\ attempts[j] = 2 /\ timerDelay[j] = 10000
    /\ Len(queue) >= 1 /\ processing

C28_FormatsVisited ==
  IF pv.pc \in {"transcode", "upload", "fstat"} THEN pv.fi - 1 ELSE Len(pv.availableFormats)

C28_ThumbsVisited ==
  IF pv.pc \in {"extract", "tupload", "tstat"} THEN pv.ti - 1 ELSE Len(pv.timestamps)

\* the planned renditions among the first k of which no step failed, in plan
\* order, and the same for the thumbnails (by loop index, from 1)
C28_Succeeded(k) ==
  LET Ok(f) == \A stage \in {"transcode", "upload", "stat"} :
                 <<f.quality, stage>> \notin pv.formatFailures
  IN SelectSeq(SubSeq(pv.availableFormats, 1, k), Ok)

C28_ThumbsSucceeded(k) ==
  LET Ok(i) == i \notin pv.thumbFailures
  IN SelectSeq([i \in 1..k |-> i], Ok)

\* C28: formats holds one entry, in plan order and without duplicates, for
\* exactly the planned renditions the loop has gone through of which the
\* transcode, the upload and the size lookup all succeeded (so, when the loop
\* is over, for all such planned renditions); thumbnails likewise for the
\* timestamps; the planned renditions have distinct labels; and a failure of
\* a rendition or of a thumbnail does not make processVideo throw.
C28_Subsequence ==
  LET fs == C28_Succeeded(C28_FormatsVisited)
      ts == C28_ThumbsSucceeded(C28_ThumbsVisited)
  IN /\ \A x, y \in 1..Len(pv.availableFormats) :
          x # y => pv.availableFormats[x].quality # pv.availableFormats[y].quality
     /\ Len(pv.formats) = Len(fs)
     /\ \A i \in 1..Len(fs) :
          /\ pv.formats[i].quality = fs[i].quality
          /\ pv.formats[i].resolution = fs[i].resolution
          /\ pv.formats[i].bitrate = fs[i].bitrate
          /\ pv.formats[i].codec = fs[i].codec
     /\ Len(pv.thumbnails) = Len(ts)
     /\ \A i \in 1..Len(ts) :
          /\ pv.thumbnails[i].timestamp = pv.timestamps[ts[i]]
          /\ pv.thumbnails[i].url = UploadedUrl(<<"thumbnail_", ts[i] - 1>>)
     /\ (pv.formatFailures # {} \/ pv.thumbFailures # {}) => ~pv.threw

\* C28 witness: processVideo returned a manifest for a plan of three
\* renditions of which the second failed at its upload, and for five
\* timestamps of which the second and the last failed.
C28_Witness ==
  /\ jobs # <<>> /\ pc[TheJob] = "q2"
  /\ Len(pv.availableFormats) = 3
  /\ pv.formatFailures = {<<pv.availableFormats[2].quality, "upload">>}
  /\ Len(pv.formats) = 2
  /\ pv.thumbFailures = {2, 5}
  /\ Len(pv.thumbnails) = 3

\* C29: a call of getQueueStatus changes nothing of the queue, of its jobs or
\* of the rows, and the snapshot it returns has queueLength equal to the
\* number of jobs waiting in the queue, the jobs in flight and the jobs waiting
\* for their retry delay not counted, and processing true if at least one job
\* is in flight.
C29_Snapshot ==
  [][queueStatus' # queueStatus =>
       /\ UNCHANGED qvars
       /\ queueStatus'[1].queueLength = Cardinality({j \in JobIds : pc[j] = "queued"})
       /\ queueStatus'[1].queueLength =
            Len(jobs) - Cardinality({j \in JobIds : pc[j] \in InFlightPcs})
                      - Cardinality({j \in JobIds : pc[j] = "timer"})
                      - Cardinality({j \in JobIds : pc[j] \in {"completed", "failed", "rejected"}})
       /\ (\E j \in JobIds : pc[j] \in InFlightPcs) => queueStatus'[1].processing = TRUE]_vars

\* C29 witness: the snapshot was taken with one job waiting, one in flight and
\* one waiting for its retry delay: queueLength 1, processing true.
C29_Witness ==
  /\ queueStatus = Defined([queueLength |-> 1, processing |-> TRUE])
  /\ \E j, k, l \in JobIds :
       pc[j] = "queued" /\ pc[k] \in InFlightPcs /\ pc[l] = "timer"

\* C30: between any two event-loop tasks, if the processing flag is false
\* the queue is empty.
C30_IdleQueueEmpty == ~processing => queue = <<>>

\* C30 witness: the flag is false and the queue empty after addJob admitted
\* several jobs and a retry timer fired and restarted its job, which then ran
\* to its end.
C30_Witness ==
  /\ ~processing /\ queue = <<>>
  /\ Len(jobs) >= 2
  /\ \E j \in JobIds : attempts[j] >= 2 /\ pc[j] = "completed"
  /\ \E j \in JobIds : pc[j] = "timer"

\* C31 (as claimed): at any time at most one job that is queued, active or
\* waiting for its retry delay exists for a given video.
C31_OneJobPerVideo ==
  \A j, k \in JobIds :
    (j # k /\ C25_Unfinished(j) /\ C25_Unfinished(k)) => jobs[j].videoId # jobs[k].videoId

\* C32 (as claimed): once the persisted status of a video is `completed` no
\* step changes it, and `failed` is only ever followed by `pending`, written
\* by an admin retry request whose UPDATE succeeds.
C32_FinalStatusKept ==
  [][\A v \in VideoIds :
       /\ status[v] = "completed" => status'[v] = "completed"
       /\ (status[v] = "failed" /\ status'[v] # "failed") =>
            (status'[v] = "pending" /\ adminPending'[v] < adminPending[v])]_vars

\* an attempt of the job ends in the catch block of processJob
C33_AttemptFails ==
  /\ pc[TheJob] \in {"q1", "pv", "q2"}
  /\ pc'[TheJob] \in {"timer", "q3"}

\* C33: an attempt that fails at the `processing` write, in the pipeline run
\* or at the `completed` write has one and the same effect: retryCount grows
\* by one, and the job waits for a retry timer of 5000 * retryCount ms if
\* retryCount is still below maxRetries and goes to its `failed` write
\* otherwise, with nothing stored; the two writes have no other way to fail;
\* and every attempt, the one after a failed `completed` write included, runs
\* the pipeline from its first step before it comes to the `completed` write.
C33_WriteFailureRetried ==
  /\ [](jobs # <<>> =>
          (pc[TheJob] = "q2" =>
             /\ pv.pc = "rm" /\ ~pv.threw
             /\ {"transcode"} \subseteq pv.engineCalls))
  /\ [][jobs # <<>> =>
          LET rc == jobs[TheJob].retryCount
              rcNew == jobs'[TheJob].retryCount
          IN /\ C33_AttemptFails =>
                  /\ rcNew = rc + 1
                  /\ pc'[TheJob] = IF rcNew < maxRetries THEN "timer" ELSE "q3"
                  /\ pc'[TheJob] = "timer" => timerDelay'[TheJob] = 5000 * rcNew
                  /\ status' = status /\ row' = row
                  /\ attempts' = attempts
             /\ ~C33_AttemptFails => rcNew = rc
             /\ (pc[TheJob] = "q1" /\ pc'[TheJob] # "q1") =>
                  \/ C33_AttemptFails
                  \/ pc'[TheJob] = "pv" /\ pv' = [IdlePipeline EXCEPT !.pc = "mkdir"]
             /\ (pc[TheJob] = "q2" /\ pc'[TheJob] # "q2") =>
                  (C33_AttemptFails \/ pc'[TheJob] = "completed")
             /\ (pc[TheJob] = "timer" /\ pc'[TheJob] # "timer") =>
                  (pc'[TheJob] = "q1" /\ attempts'[TheJob] = attempts[TheJob] + 1)]_vars

\* C33 witness: the pipeline of the first attempt returned a manifest with a
\* rendition, its `completed` write failed, the 5000 ms timer has put the job
\* back and the second attempt has begun: it awaits its `processing` write,
\* after which the pipeline starts again.
C33_Witness ==
  /\ jobs # <<>>
  /\ jobs[TheJob].retryCount = 1 /\ attempts[TheJob] = 2
  /\ timerDelay[TheJob] = 5000
  /\ pc[TheJob] = "q1"
  /\ pv.pc = "rm" /\ ~pv.threw /\ Len(pv.formats) >= 1
  /\ status[jobs[TheJob].videoId] = "processing"
  /\ row = Undefined

\* C34 (as claimed): while a job waits for its retry delay the persisted
\* status of its video is `processing`.
C34_Original ==
  (jobs # <<>> /\ pc[TheJob] = "timer") => status[jobs[TheJob].videoId] = "processing"

\* C34 (amended): a failed attempt that will be retried changes only the
\* job's retryCount and sets the timer: it stores nothing, and nothing is
\* stored during the retry delay, so the persisted status stays as the job's
\* last successful write left it: `processing`, or still `pending` when no
\* `processing` write of the job has succeeded yet; and the job that is
\* started again is the same job, with its videoId, source URL and options.
C34_RetryFrame ==
  /\ [](jobs # <<>> /\ pc[TheJob] = "timer" =>
          /\ status[jobs[TheJob].videoId] = IF pv.pc = "idle" THEN "pending" ELSE "processing"
          /\ row = Undefined)
  /\ [][jobs # <<>> =>
          /\ (pc[TheJob] \in {"q1", "pv", "q2"} /\ pc'[TheJob] = "timer") =>
               /\ jobs' = [jobs EXCEPT ![TheJob].retryCount = @ + 1]
               /\ status' = status /\ videoUrl' = videoUrl /\ row' = row
               /\ jobOpts' = jobOpts /\ pv' = pv
               /\ queue' = queue /\ attempts' = attempts
          /\ pc[TheJob] = "timer" =>
               /\ jobs' = jobs /\ jobOpts' = jobOpts
               /\ status' = status /\ videoUrl' = videoUrl /\ row' = row
               /\ pc'[TheJob] \in {"timer", "q1"}]_vars

\* C34 witness: the job, admitted with the upload handler's options, waits
\* for its second retry; the row is still `processing` and no manifest column
\* was stored.
C34_Witness ==
  /\ jobs # <<>> /\ pc[TheJob] = "timer"
  /\ jobs[TheJob].retryCount = 2
  /\ jobs[TheJob].videoUrl = SecureUrl(1)
  /\ jobOpts = UploadOptions
  /\ status[jobs[TheJob].videoId] = "processing"

\* the step in which getVideoMetadata resolves and the duration check is made
C36_ProbeResolves ==
  /\ jobs # <<>> /\ pc[TheJob] = "pv" /\ pv.pc = "probe"
  /\ pv'.duration # pv.duration

\* C36: when the probe resolves, processVideo goes on to fs.stat without
\* having thrown exactly when maxDuration is unset, is 0, or the probed
\* duration is at most maxDuration; otherwise it has thrown and only the
\* removal of the scratch directory is left.
C36_DurationCheck ==
  [][C36_ProbeResolves =>
       /\ pv'.pc \in {"stat", "rm"}
       /\ pv'.threw <=> (pv'.pc = "rm")
       /\ (pv'.pc = "stat") <=>
            \/ jobOpts.maxDuration = Undefined
            \/ jobOpts.maxDuration = Defined(0)
            \/ pv'.duration <= jobOpts.maxDuration[1]]_vars

\* C36 witness: the probe found exactly the 60 seconds of maxDuration and the
\* run is at fs.stat
C36_Witness ==
  /\ jobs # <<>> /\ pc[TheJob] = "pv"
  /\ jobOpts.maxDuration = Defined(60)
  /\ pv.duration = 60
  /\ pv.pc = "stat" /\ ~pv.threw

\* both loops of the current run are over, every planned rendition failed at
\* one of its steps and so did every thumbnail
C35_AllSoftFailed ==
  /\ jobs # <<>> /\ pc[TheJob] \in {"pv", "q2", "completed"}
  /\ pv.pc = "rm"
  /\ pv.availableFormats # <<>>
  /\ \A i \in 1..Len(pv.availableFormats) :
       \E stage \in {"transcode", "upload", "stat"} :
         <<pv.availableFormats[i].quality, stage>> \in pv.formatFailures
  /\ pv.timestamps # <<>>
  /\ pv.thumbFailures = 1..Len(pv.timestamps)

\* C35: when every planned rendition and every thumbnail has soft-failed,
\* processVideo has not thrown and its manifest has empty formats and
\* thumbnails; and once the `completed` write of that attempt has succeeded
\* the row is `completed` with empty formats and thumbnails.
C35_EmptyManifestCompleted ==
  C35_AllSoftFailed =>
    /\ ~pv.threw
    /\ pv.formats = <<>> /\ pv.thumbnails = <<>>
    /\ pc[TheJob] = "completed" =>
         /\ status[jobs[TheJob].videoId] = "completed"
         /\ row # Undefined
         /\ row[1].processed_formats = <<>> /\ row[1].thumbnails = <<>>

\* C35 witness: three planned renditions and five thumbnails all failed, the
\* run returned, and the row is stored as `completed` with nothing in its
\* formats and thumbnails.
C35_Witness ==
  /\ C35_AllSoftFailed
  /\ pc[TheJob] = "completed"
  /\ Len(pv.availableFormats) = 3 /\ Len(pv.timestamps) = 5
  /\ status[jobs[TheJob].videoId] = "completed"
  /\ row # Undefined
  /\ row[1].processed_formats = <<>> /\ row[1].thumbnails = <<>>

\* processVideo has returned a manifest to the job's processJob
C11_Returned == jobs # <<>> /\ pc[TheJob] \in {"q2", "completed"}

\* the qualities of the manifest's formats, in order
C11_Qualities == [i \in 1..Len(pv.formats) |-> pv.formats[i].quality]

\* the job's attempt left retryCount as it was, and once the `completed`
\* write has succeeded the row is `completed` and holds the manifest
C11_Completed ==
  /\ jobs[TheJob].retryCount = attempts[TheJob] - 1
  /\ pc[TheJob] = "completed" =>
       /\ status[jobs[TheJob].videoId] = "completed"
       /\ row = Defined([processed_formats |-> pv.formats, thumbnails |-> pv.thumbnails,
                         metadata |-> pv.metadata, duration |-> pv.duration])

\* C11 (as claimed): requested 360p and 720p, the 720p transcode threw, the
\* 360p rendition was transcoded, uploaded and measured: the manifest's
\* formats is exactly [360p], retryCount is unchanged and the row becomes
\* `completed`.
C11_Original ==
  ( /\ C11_Returned
    /\ jobOpts.formats = Defined(<<"360p", "720p">>)
    /\ <<"720p", "transcode">> \in pv.formatFailures
    /\ \A stage \in {"transcode", "upload", "stat"} : <<"360p", stage>> \notin pv.formatFailures )
  => /\ C11_Qualities = <<"360p">>
     /\ C11_Completed

\* C11 (amended): requested 360p and 720p, the 720p transcode threw, the 360p
\* rendition was transcoded, uploaded and measured: the manifest's formats has
\* the 360p entry first and no 720p entry; it is exactly [360p] when the source
\* is less than 1080 high, and [360p] or [360p, original] when it is 1080 or
\* more; retryCount is unchanged and the row is `completed` once the
\* `completed` write has succeeded.
C11_PartialFailure ==
  ( /\ C11_Returned
    /\ jobOpts.formats = Defined(<<"360p", "720p">>)
    /\ <<"720p", "transcode">> \in pv.formatFailures
    /\ \A stage \in {"transcode", "upload", "stat"} : <<"360p", stage>> \notin pv.formatFailures )
  => /\ IF pv.metadata.height < 1080
          THEN C11_Qualities = <<"360p">>
          ELSE C11_Qualities \in {<<"360p">>, <<"360p", "original">>}
     /\ C11_Completed

\* C11 witness: a 1080-high source, 360p and 720p requested, the 720p
\* transcode threw, the manifest holds 360p and original, and the row was
\* stored as `completed` by an attempt that followed a failed one.
C11_Witness ==
  /\ C11_Returned /\ pc[TheJob] = "completed"
  /\ jobOpts.formats = Defined(<<"360p", "720p">>)
  /\ <<"720p", "transcode">> \in pv.formatFailures
  /\ C11_Qualities = <<"360p", "original">>
  /\ jobs[TheJob].retryCount = 1
  /\ status[jobs[TheJob].videoId] = "completed"

\* the renditions and the thumbnails (by loop index, from 1) that failed
\* during the attempt that stored the row
C12_FailedQualities == {f[1] : f \in pv.formatFailures}
C12_FailedThumbs == pv.thumbFailures

C13_Computed == pv.pc # "thumbs"

\* C13: for duration d and count n there are n timestamps and the one of the
\* loop's i (element i + 1) is d / (n + 1) * (i + 1); for d = 60 and n = 5
\* they are exactly [10, 20, 30, 40, 50]; for d > 0 and n >= 1 they are
\* strictly increasing and strictly between 0 and d.
C13_Timestamps ==
  C13_Computed =>
    LET d == pv.duration
        n == ThumbnailCount(jobOpts)
        ts == pv.timestamps
    IN /\ Len(ts) = n
       /\ \A i \in 1..n : ts[i][1] * (n + 1) = d * i * ts[i][2]
       /\ (d = 60 /\ n = 5) =>
            ts = <<Whole(10), Whole(20), Whole(30), Whole(40), Whole(50)>>
       /\ (d > 0 /\ n >= 1) =>
            /\ \A i \in 1..n : Less(Whole(0), ts[i]) /\ Less(ts[i], Whole(d))
            /\ \A i \in 1..(n - 1) : Less(ts[i], ts[i + 1])

\* C13 witness: the timestamps were computed for duration 60 and count 5
C13_Witness ==
  /\ C13_Computed
  /\ pv.duration = 60
  /\ jobOpts.thumbnailCount = Defined(5)
  /\ Len(pv.timestamps) = 5

\* C19 (as claimed): whenever options.maxDuration is set and the probed
\* duration exceeds it, the processVideo call has thrown without a transcode,
\* an extraction or an upload, and returns no manifest.
C19_Original ==
  (jobs # <<>> /\ jobOpts.maxDuration # Undefined
     /\ pv.duration > jobOpts.maxDuration[1]) =>
    /\ pc[TheJob] \notin {"q2", "completed"}
    /\ pc[TheJob] = "pv" => (pv.threw /\ pv.pc = "rm" /\ pv.engineCalls = {})

\* C19 (amended): whenever options.maxDuration is set to a number other than
\* 0 and the probed duration exceeds it, the processVideo call has thrown
\* (only the removal of the scratch directory is left) without having invoked
\* a transcode, a thumbnail extraction or an upload and with nothing in its
\* formats and thumbnails, and it returns no manifest.
C19_MaxDuration ==
  (jobs # <<>> /\ jobOpts.maxDuration \notin {Undefined, Defined(0)}
     /\ pv.duration > jobOpts.maxDuration[1]) =>
    /\ pc[TheJob] \notin {"q2", "completed"}
    /\ pv.engineCalls = {} /\ pv.formats = <<>> /\ pv.thumbnails = <<>>
    /\ pc[TheJob] = "pv" => (pv.threw /\ pv.pc = "rm")

\* C19 witness: maxDuration is 300, the probe found 301 seconds, and the
\* failure has reached the catch block of processJob.
C19_Witness ==
  /\ jobs # <<>>
  /\ jobOpts.maxDuration = Defined(300)
  /\ pv.duration = 301
  /\ pc[TheJob] = "timer"
  /\ pv.engineCalls = {}

\* the chunk a URL index belongs to
C14_ChunkOf(r) == (r - 1) \div batchConcurrency

\* C14: at most 3 processVideo calls of batchProcessVideos are in flight at
\* once, and a call of a later chunk has started only when every call of every
\* earlier chunk has settled.
C14_BatchLimit ==
  /\ Cardinality(RunsInFlight) <= batchConcurrency
  /\ \A r, q \in 1..Len(runs) :
       (runs[r].pc # "idle" /\ C14_ChunkOf(q) < C14_ChunkOf(r)) => runs[q].pc = "settled"

\* C14 witness: a list of more than 3 URLs; the first chunk had 3 calls, one
\* of them threw, and the call of the second chunk is in flight.
C14_Witness ==
  /\ Len(videoUrls) > batchConcurrency
  /\ \E q \in 1..batchConcurrency : runs[q].threw
  /\ \E r \in RunsInFlight : r > batchConcurrency

\* C15: batchProcessVideos calls processVideo once for every URL (a call once
\* started is never started again, and at the return every call has been made
\* and has settled), it only ever returns (it has no rejecting exit), and the
\* array it returns holds exactly the manifests of the runs that did not
\* throw, in input order.
C15_BatchResults ==
  /\ [](bpc = "done" =>
          /\ \A r \in 1..Len(videoUrls) : runs[r].pc = "settled"
          /\ Range(results) = {r \in 1..Len(videoUrls) : ~runs[r].threw}
          /\ \A x, y \in 1..Len(results) : x < y => results[x] < results[y])
  /\ [][\A r \in 1..Len(runs) :
          (runs[r].pc # "idle" /\ runs'[r].pc = "mkdir") => runs[r].pc = "mkdir"]_vars

\* C15 witness: the batch has returned; the first run threw, a later run of
\* the same chunk and the run of the next chunk returned a manifest.
C15_Witness ==
  /\ bpc = "done"
  /\ Len(videoUrls) > batchConcurrency
  /\ runs[1].threw /\ ~runs[2].threw /\ ~runs[Len(runs)].threw
  /\ Len(results) = Len(videoUrls) - 1

\* a job that has failed an attempt and waits to be started again
C16_AwaitsRetry(j) ==
  pc[j] = "timer" \/ (pc[j] = "queued" /\ attempts[j] >= 1)

\* C16 (as claimed): the retry of a job is started before any job queued after
\* that job's failed attempt: while a job waits for its retry, a job admitted
\* in the meantime is not started.
C16_Original ==
  [][\A j \in JobIds :
       (C16_AwaitsRetry(j) /\ Len(jobs') > Len(jobs)) => pc'[Len(jobs')] # "q1"]_vars

\* C16 (amended): when the retry timer of a job fires, the job is put at the
\* head of the queue, ahead of every job waiting at that moment (and a pass
\* started by that very call starts a prefix of that queue, the job first);
\* and a job waiting in the queue is never started while a job ahead of it
\* stays behind.
C16_RetryAtHead ==
  [][/\ \A j \in JobIds :
          (pc[j] = "timer" /\ pc'[j] # "timer") =>
            LET q == <<j>> \o queue
            IN \/ queue' = q /\ pc'[j] = "queued"
               \/ \E n \in 1..Len(q) :
                    /\ queue' = SubSeq(q, n + 1, Len(q))
                    /\ \A i \in 1..n : pc'[q[i]] = "q1"
     /\ \A x, y \in 1..Len(queue) :
          (x < y /\ pc'[queue[y]] = "q1") => pc'[queue[x]] = "q1"]_vars

\* C16 witness: the retry timer of a job fired while another job was waiting:
\* the retried job is at the head, the job that never started behind it.
C16_Witness ==
  /\ Len(queue) >= 2
  /\ attempts[queue[1]] >= 1
  /\ attempts[queue[2]] = 0

C20_AdminRetry ==
  [][\A v \in VideoIds :
       /\ adminPending'[v] > adminPending[v] =>
            /\ status[v] = "failed"
            /\ UNCHANGED <<queue, jobs, pc, status>>
       /\ (adminPending'[v] < adminPending[v] /\ Len(jobs') > Len(jobs)) =>
            LET id == Len(jobs')
            IN /\ status'[v] = "pending"
               /\ Len(jobs') = Len(jobs) + 1
               /\ jobs'[id].videoId = v
               /\ jobs'[id].retryCount = 0
               /\ jobs'[id].videoUrl = videoUrl[v]
               /\ \/ queue' = Append(queue, id)
                  \/ pc'[id] = "q1" /\ queue' = queue
       /\ (status'[v] = "pending" /\ status[v] # "pending") =>
            adminPending'[v] < adminPending[v]
       /\ (Len(jobs') > Len(jobs) /\ jobs'[Len(jobs')].videoId = v) =>
            adminPending'[v] < adminPending[v]
       /\ adminPending'[v] = adminPending[v] =>
            (status'[v] = status[v] \/ \E j \in JobIds : jobs[j].videoId = v /\ pc'[j] # pc[j])]_vars

\* C20 witness: a job used up its retries and its row was persisted `failed`;
\* the admin retry has reset the row to `pending` and admitted a fresh job,
\* which is awaiting its `processing` write.
C20_Witness ==
  \E j, k \in JobIds :
    /\ j < k
    /\ jobs[j].videoId = jobs[k].videoId
    /\ pc[j] = "failed"
    /\ jobs[k].retryCount = 0 /\ pc[k] = "q1"
    /\ status[jobs[k].videoId] = "pending"

TypeOK ==
  /\ processing \in BOOLEAN
  /\ immediates \in Nat
  /\ Len(pc) = Len(jobs) /\ Len(attempts) = Len(jobs)
  /\ Len(calls) = Len(jobs) /\ Len(timerDelay) = Len(jobs)
  /\ Len(videoUrl) = Len(status) /\ Len(adminPending) = Len(status)
  /\ \A j \in JobIds : jobs[j].videoId \in VideoIds
  /\ \A v \in VideoIds : status[v] \in {"pending", "processing", "completed", "failed"}
====
